---- MODULE Spec2Model ----
(***************************************************************************)
(* Model of frontend/cleanup.py: a straight-line script that enters a      *)
(* hardcoded directory, removes a fixed list of files, removes the         *)
(* top-level entries matching test-*.html, and finally removes itself.     *)
(*                                                                         *)
(* Python strings are modelled as sequences of one-character strings, so   *)
(* that os.path.join, the resolution of relative paths against the working *)
(* directory and the fnmatch of glob are computed on the characters.       *)
(* The filesystem is a function from a finite universe of absolute paths   *)
(* to the kind of entry found there.  Every iteration of a loop is a step  *)
(* of its own, the existence check and the removal of a listed file are    *)
(* separate steps, and other processes can remove and create entries       *)
(* between any two system calls of the script, the last one included.      *)
(***************************************************************************)
EXTENDS Integers, Sequences, FiniteSets, TLC

(***************************************************************************)
(* Bounds of the model.                                                    *)
(***************************************************************************)
\* entries at the varying paths when the first run starts
MaxEntries == 1
\* changes made to the filesystem by other processes during the runs
MaxRaces == 1
\* runs of the script in sequence
MaxRuns == 2

(***************************************************************************)
(* Program constants.                                                      *)
(***************************************************************************)
frontend_dir ==
    <<"/","U","s","e","r","s","/","a","n","d","e","s","l","e","e","/","D","o","c","u","m","e","n","t","s","/","C","u","r","s","o","r","-","P","r","o","j","e","c","t","s","/","P","r","o","j","e","c","t","-","H","/","f","r","o","n","t","e","n","d">>

files_to_remove ==
    << <<"F","I","X","_","D","A","T","A","B","A","S","E","_","N","O","W",".","s","q","l">>,
       <<"F","I","X","_","R","L","S","_","P","O","L","I","C","I","E","S","_","H","I","P","A","A","_","C","O","M","P","L","I","A","N","T",".","s","q","l">>,
       <<"D","I","S","C","O","V","E","R","_","R","E","A","L","_","S","C","H","E","M","A",".","s","q","l">>,
       <<"S","I","M","P","L","E","_","F","I","X","_","J","U","S","T","_","M","A","K","E","_","I","T","_","W","O","R","K",".","s","q","l">>,
       <<"R","E","A","L","_","F","I","X","_","B","A","S","E","D","_","O","N","_","A","C","T","U","A","L","_","S","C","H","E","M","A",".","s","q","l">>,
       <<"f","i","x","-","r","l","s","-","p","o","l","i","c","i","e","s",".","s","q","l">>,
       <<"u","p","d","a","t","e","-","p","a","t","i","e","n","t","-","p","h","o","n","e","s",".","s","q","l">>,
       <<"u","p","d","a","t","e","-","p","a","t","i","e","n","t","-","p","h","o","n","e","s",".","h","t","m","l">>,
       <<"w","a","i","t","l","i","s","t","-","p","r","e","v","i","e","w",".","h","t","m","l">>,
       <<"d","e","b","u","g","-","s","u","p","a","b","a","s","e",".","h","t","m","l">>,
       <<"d","e","b","u","g","-","i","n","t","e","g","r","a","t","i","o","n","-","t","e","s","t",".","j","s">>,
       <<"d","e","b","u","g","-","t","e","s","t",".","j","s">>,
       <<"d","e","b","u","g","-","s","u","p","a","b","a","s","e","-","h","a","n","g",".","j","s">>,
       <<"r","u","n","-","s","e","e","d","-","n","o","w",".","j","s">>,
       <<"e","x","e","c","u","t","e","-","r","l","s","-","f","i","x","e","s",".","j","s">>,
       <<"u","p","d","a","t","e","-","a","l","l","-","p","a","t","i","e","n","t","-","p","h","o","n","e","s",".","j","s">>,
       <<"S","U","M","M","A","R","Y","_","F","I","X","E","S","_","C","O","M","P","L","E","T","E",".","m","d">>,
       <<"S","U","P","A","B","A","S","E","_","R","L","S","_","F","I","X","_","I","N","S","T","R","U","C","T","I","O","N","S",".","m","d">>,
       <<"c","l","e","a","n","u","p","-","t","e","m","p","-","f","i","l","e","s",".","s","h">>,
       <<"p","u","b","l","i","c","/","t","e","s","t","-","s","u","p","a","b","a","s","e",".","h","t","m","l">>,
       <<"p","e","r","f","o","r","m","-","c","l","e","a","n","u","p",".","s","h">>,
       <<"c","l","e","a","n","u","p",".","j","s">> >>

\* the pattern handed to glob.glob
test_pattern == <<"t","e","s","t","-","*",".","h","t","m","l">>

(***************************************************************************)
(* String and path functions of the Python library.                        *)
(***************************************************************************)
\* s.startswith(t)
StartsWith(s, t) == Len(s) >= Len(t) /\ SubSeq(s, 1, Len(t)) = t

\* the position of the last "/" of s, 0 when there is none
LastSlash(s) ==
    LET idx == {k \in 1..Len(s) : s[k] = "/"}
    IN  IF idx = {} THEN 0 ELSE CHOOSE k \in idx : \A m \in idx : m <= k

\* os.path.join(a, b) of posixpath
Join(a, b) ==
    IF StartsWith(b, <<"/">>) THEN b
    ELSE IF a = <<>> \/ a[Len(a)] = "/" THEN a \o b
    ELSE a \o <<"/">> \o b

\* os.path.dirname(p) for an absolute path below the root
Dirname(p) == SubSeq(p, 1, LastSlash(p) - 1)

\* os.path.basename(p)
Basename(p) == SubSeq(p, LastSlash(p) + 1, Len(p))

\* the position of the first "/" of s, 0 when there is none
FirstSlash(s) ==
    LET idx == {k \in 1..Len(s) : s[k] = "/"}
    IN  IF idx = {} THEN 0 ELSE CHOOSE k \in idx : \A m \in idx : k <= m

\* s.split("/")
RECURSIVE SplitPath(_)
SplitPath(s) ==
    LET k == FirstSlash(s)
    IN  IF k = 0 THEN << s >>
        ELSE << SubSeq(s, 1, k - 1) >> \o SplitPath(SubSeq(s, k + 1, Len(s)))

\* the walk of the kernel along the components of an absolute path: empty
\* components and "." stay in place, ".." goes to the parent
RECURSIVE Walk(_, _)
Walk(stack, comps) ==
    IF comps = <<>> THEN stack
    ELSE LET c == Head(comps)
         IN  IF c = <<>> \/ c = << "." >> THEN Walk(stack, Tail(comps))
             ELSE IF c = << ".", "." >>
                  THEN Walk(IF stack = <<>> THEN stack
                            ELSE SubSeq(stack, 1, Len(stack) - 1), Tail(comps))
             ELSE Walk(Append(stack, c), Tail(comps))

\* the absolute path made of the components of stack
RECURSIVE Unsplit(_)
Unsplit(stack) ==
    IF stack = <<>> THEN <<>>
    ELSE << "/" >> \o Head(stack) \o Unsplit(Tail(stack))

\* the directory entry a system call on path p refers to when the working
\* directory is wd; a symbolic link in the last component is not followed
Lookup(wd, p) ==
    LET parts == Walk(<<>>, SplitPath(Join(wd, p)))
    IN  IF parts = <<>> THEN << "/" >> ELSE Unsplit(parts)

\* fnmatch.fnmatchcase(name, pat) for patterns made of literals, * and ?
RECURSIVE Fnmatch(_, _)
Fnmatch(name, pat) ==
    IF pat = <<>> THEN name = <<>>
    ELSE IF Head(pat) = "*"
         THEN Fnmatch(name, Tail(pat))
              \/ (name # <<>> /\ Fnmatch(Tail(name), pat))
    ELSE IF Head(pat) = "?"
         THEN name # <<>> /\ Fnmatch(Tail(name), Tail(pat))
    ELSE name # <<>> /\ Head(name) = Head(pat)
         /\ Fnmatch(Tail(name), Tail(pat))

(***************************************************************************)
(* The environment: where the script lives, how it is launched, and the    *)
(* paths whose presence varies.                                            *)
(***************************************************************************)
\* the parent of frontend_dir, from where the script can be launched
project_dir == Dirname(frontend_dir)

\* the file that is executed
script_path == Join(frontend_dir, <<"c","l","e","a","n","u","p",".","p","y">>)

\* a symbolic link to the script, outside frontend_dir
link_path == Join(project_dir, <<"r","u","n","-","c","l","e","a","n","u","p",".","p","y">>)

\* the ways of launching the script: working directory and argv[0].  The
\* first is a launch from frontend_dir by a path that goes through ".." and
\* ".", the second a launch from the parent through the symbolic link.
Launches ==
    { [cwd |-> frontend_dir, argv0 |-> <<".",".","/","f","r","o","n","t","e","n","d","/",".","/","c","l","e","a","n","u","p",".","p","y">>],
      [cwd |-> project_dir,  argv0 |-> <<"r","u","n","-","c","l","e","a","n","u","p",".","p","y">>] }

\* the entries of the fixed list whose presence varies: the last two
ListedNames == { files_to_remove[21], files_to_remove[22] }

\* the top-level names of the form test-*.html whose presence varies
MatchNames ==
    { <<"t","e","s","t","-","a",".","h","t","m","l">>,
      <<"t","e","s","t","-","b",".","h","t","m","l">> }

VarPaths ==
    { Join(frontend_dir, n) : n \in ListedNames \cup MatchNames }

\* the universe of absolute paths of the filesystem
Paths == VarPaths \cup {script_path, link_path}

\* directories whose permissions vary for the user running the script
Dirs == {frontend_dir}

\* os.path.split(p) of every path of the filesystem, computed once
SplitTable == [p \in Paths |-> [dir |-> Dirname(p), name |-> Basename(p)]]

\* whether each name of the filesystem matches the pattern of line 64,
\* computed once
MatchTable ==
    [n \in { Basename(p) : p \in Paths } |-> Fnmatch(n, test_pattern)]

\* what can be at a path: nothing, a file, a directory, a symbolic link
Kinds == {"absent", "file", "dir", "link"}

\* the entries of the filesystem; a symbolic link holds the path it leads to,
\* which can be any path, the one of the link itself included
NoEntry == [kind |-> "absent", to |-> <<>>]
FileEntry == [kind |-> "file", to |-> <<>>]
DirEntry == [kind |-> "dir", to |-> <<>>]
LinkEntry(q) == [kind |-> "link", to |-> q]
Entries == {NoEntry, FileEntry, DirEntry} \cup { LinkEntry(q) : q \in Paths }


(***************************************************************************)
(* State.                                                                  *)
(***************************************************************************)
VARIABLES
    pc,          \* the statement the script is at
    cwd,         \* the working directory of the process
    fs,          \* the filesystem: the entry at each path of Paths
    readonly,    \* directories in which the user cannot unlink entries
    unreadable,  \* directories the user cannot list
    dir_ok,      \* whether frontend_dir can be entered
    launch,      \* working directory and argv[0] at launch
    main_file,   \* the value of __file__
    i,           \* index in files_to_remove of the next item
    file_path,   \* file_path of the current iteration
    test_files,  \* the list returned by glob.glob
    j,           \* index in test_files of the next item
    out,         \* lines printed on standard output by the current run
    checks,      \* results of the os.path.exists calls of the current run
    calls,       \* os.remove calls of the current run, with their outcome
    touched,     \* paths changed by other processes during the current run
    fs0,         \* the filesystem when the current run started
    races,       \* changes made by other processes so far
    run          \* number of the current run

vars == << pc, cwd, fs, readonly, unreadable, dir_ok, launch, main_file, i, file_path,
           test_files, j, out, checks, calls, touched, fs0, races,
           run >>

(***************************************************************************)
(* System calls and library calls on the filesystem.                       *)
(***************************************************************************)
\* the kind of entry at path p in filesystem f
Kind(f, p) == IF p \in DOMAIN f THEN f[p].kind ELSE "absent"

\* os.readlink(p): the path the symbolic link at p leads to
LinkTarget(f, p) == f[p].to

\* the kind of entry os.stat(p) arrives at; it follows symbolic links, at
\* most n of them, and fails on a missing target and on a loop of links
RECURSIVE Follow(_, _, _)
Follow(f, p, n) ==
    IF Kind(f, p) # "link" THEN Kind(f, p)
    ELSE IF n = 0 THEN "absent"
    ELSE Follow(f, LinkTarget(f, p), n - 1)

\* os.path.exists(p) for the entry p: whether os.stat(p) succeeds
Exists(f, p) == Follow(f, p, Cardinality(Paths)) \in {"file", "dir"}

\* os.path.lexists(p): there is an entry at p
Present(f, p) == Kind(f, p) # "absent"

\* the error os.remove raises on entry p, "" when it succeeds; a symbolic
\* link is removed itself
RemoveErr(f, p) ==
    IF Kind(f, p) = "absent" THEN "ENOENT"
    ELSE IF SplitTable[p].dir \in readonly THEN "EACCES"
    ELSE IF Kind(f, p) = "dir" THEN "EISDIR"
    ELSE ""

\* variant of Unlink: the entry stays in place
Unlink_noop(f, p) == f

\* the filesystem after a successful unlink of p
Unlink(f, p) == IF p \in DOMAIN f THEN [f EXCEPT ![p] = NoEntry] ELSE f

\* variant of Listdir: directories are left out
Listdir_files(f, d) ==
    { SplitTable[p].name :
        p \in {q \in DOMAIN f : SplitTable[q].dir = d /\ Kind(f, q) \in {"file", "link"}} }

\* os.listdir(d): the names of the entries of directory d
Listdir(f, d) ==
    { SplitTable[p].name :
        p \in {q \in DOMAIN f : SplitTable[q].dir = d /\ Present(f, q)} }

\* the set of names glob.glob(pat) returns for a pattern without directory
\* part: the error of the scan of a directory that cannot be listed is
\* swallowed and nothing is returned
GlobNames(f, wd, pat) ==
    IF wd \in unreadable THEN {}
    ELSE { n \in Listdir(f, wd) :
             IF pat = test_pattern THEN MatchTable[n] ELSE Fnmatch(n, pat) }

\* the orders in which a directory scan can return the names of S
Orderings(S) ==
    { s \in [1..Cardinality(S) -> S] :
        \A a, b \in 1..Cardinality(S) : a # b => s[a] # s[b] }

\* __file__ of the main module: the absolute path of the script given on the
\* command line, computed at startup (Python 3.9 and later)
MainFile(wd, argv0) == Join(wd, argv0)

\* the path arguments of the system calls of a run and of its launch
CallPaths ==
    { Join(frontend_dir, files_to_remove[k]) : k \in 1..Len(files_to_remove) }
    \cup { Basename(p) : p \in Paths }
    \cup { l.argv0 : l \in Launches }
    \cup { MainFile(l.cwd, l.argv0) : l \in Launches }

\* Lookup, computed once for the working directories and paths of a run
LookupTable ==
    [wd \in {frontend_dir, project_dir}, p \in CallPaths |-> Lookup(wd, p)]

\* the directory entry a system call of the script on path p refers to
Resolve(wd, p) == LookupTable[wd, p]

\* a line of standard output
Msg(text, file, err) == [text |-> text, file |-> file, err |-> err]

\* the record of one os.remove call: the entry it refers to, the outcome
Call(path, err) == [path |-> path, err |-> err]

(***************************************************************************)
(* Initial states.                                                         *)
(***************************************************************************)
\* the script was launched through the symbolic link
ViaLink(l) == Resolve(l.cwd, l.argv0) = link_path

Init ==
    /\ launch \in Launches
    /\ \E v \in [VarPaths -> Entries] :
          /\ Cardinality({p \in VarPaths : v[p] # NoEntry}) <= MaxEntries
          /\ fs = [p \in Paths |->
                     IF p \in VarPaths THEN v[p]
                     ELSE IF p = script_path THEN FileEntry
                     ELSE IF ViaLink(launch) THEN LinkEntry(script_path)
                     ELSE NoEntry]
    /\ readonly \in SUBSET Dirs
    /\ unreadable \in SUBSET Dirs
    /\ dir_ok \in BOOLEAN
    /\ pc = "chdir"
    /\ cwd = launch.cwd
    /\ main_file = MainFile(launch.cwd, launch.argv0)
    /\ i = 1
    /\ file_path = <<>>
    /\ test_files = <<>>
    /\ j = 1
    /\ out = <<>>
    /\ checks = <<>>
    /\ calls = <<>>
    /\ touched = {}
    /\ fs0 = fs
    /\ races = 0
    /\ run = 1

(***************************************************************************)
(* The statements of the script.                                           *)
(***************************************************************************)
\* variant of Chdir: the failure of os.chdir is caught and the script goes on
Chdir_caught ==
    /\ pc = "chdir"
    /\ IF dir_ok
       THEN cwd' = frontend_dir
       ELSE UNCHANGED cwd
    /\ pc' = "start"
    /\ UNCHANGED << fs, readonly, unreadable, dir_ok, launch, main_file, i, file_path,
                    test_files, j, out, checks, calls, touched, fs0, races, run >>

\* line 9: os.chdir(frontend_dir), outside any try block
Chdir ==
    /\ pc = "chdir"
    /\ IF dir_ok
       THEN /\ cwd' = frontend_dir
            /\ pc' = "start"
       ELSE /\ pc' = "crashed"
            /\ UNCHANGED cwd
    /\ UNCHANGED << fs, readonly, unreadable, dir_ok, launch, main_file, i, file_path,
                    test_files, j, out, checks, calls, touched, fs0, races, run >>

\* line 48: the first line of output
PrintStart ==
    /\ pc = "start"
    /\ out' = Append(out, Msg("starting", <<>>, ""))
    /\ pc' = "loop"
    /\ UNCHANGED << cwd, fs, readonly, unreadable, dir_ok, launch, main_file, i,
                    file_path, test_files, j, checks, calls, touched, fs0, races, run >>

\* lines 51-54 and 57-58: one iteration up to the existence check, with the
\* skip branch; the end of the loop when the list is exhausted
LoopCheck ==
    /\ pc = "loop"
    /\ IF i > Len(files_to_remove)
       THEN /\ pc' = "glob"
            /\ UNCHANGED << i, file_path, out, checks >>
       ELSE LET file  == files_to_remove[i]
                fp    == Join(frontend_dir, file)
                found == Exists(fs, Resolve(cwd, fp))
            IN  /\ file_path' = fp
                /\ checks' = Append(checks, found)
                /\ IF found
                   THEN /\ pc' = "remove"
                        /\ UNCHANGED << i, out >>
                   ELSE /\ out' = Append(out, Msg("skipped", file, ""))
                        /\ i' = i + 1
                        /\ pc' = "loop"
    /\ UNCHANGED << cwd, fs, readonly, unreadable, dir_ok, launch, main_file,
                    test_files, j, calls, touched, fs0, races,
                    run >>

\* variant of LoopRemove: a failure ends the loop (try around the whole loop)
LoopRemove_abort ==
    /\ pc = "remove"
    /\ LET file == files_to_remove[i]
           path == Resolve(cwd, file_path)
           err  == RemoveErr(fs, path)
       IN  /\ calls' = Append(calls, Call(path, err))
           /\ IF err = ""
              THEN /\ fs' = Unlink(fs, path)
                   /\ out' = Append(out, Msg("removed", file, ""))
                   /\ i' = i + 1
                   /\ pc' = "loop"
              ELSE /\ out' = Append(out, Msg("error", file, err))
                   /\ pc' = "glob"
                   /\ UNCHANGED << fs, i >>
    /\ UNCHANGED << cwd, readonly, unreadable, dir_ok, launch, main_file, file_path,
                    test_files, j, checks, touched, fs0, races,
                    run >>

\* variant of LoopRemove: a failure is swallowed without a message
LoopRemove_silent ==
    /\ pc = "remove"
    /\ LET file == files_to_remove[i]
           path == Resolve(cwd, file_path)
           err  == RemoveErr(fs, path)
       IN  /\ calls' = Append(calls, Call(path, err))
           /\ IF err = ""
              THEN /\ fs' = Unlink(fs, path)
                   /\ out' = Append(out, Msg("removed", file, ""))
              ELSE UNCHANGED << fs, out >>
    /\ i' = i + 1
    /\ pc' = "loop"
    /\ UNCHANGED << cwd, readonly, unreadable, dir_ok, launch, main_file, file_path,
                    test_files, j, checks, touched, fs0, races,
                    run >>

\* variant of LoopRemove: a failed removal is tried a second time
LoopRemove_retry ==
    /\ pc = "remove"
    /\ LET file == files_to_remove[i]
           path == Resolve(cwd, file_path)
           err  == RemoveErr(fs, path)
       IN  IF err = ""
           THEN /\ calls' = Append(calls, Call(path, err))
                /\ fs' = Unlink(fs, path)
                /\ out' = Append(out, Msg("removed", file, ""))
           ELSE /\ calls' = calls \o << Call(path, err), Call(path, err) >>
                /\ out' = Append(out, Msg("error", file, err))
                /\ UNCHANGED fs
    /\ i' = i + 1
    /\ pc' = "loop"
    /\ UNCHANGED << cwd, readonly, unreadable, dir_ok, launch, main_file, file_path,
                    test_files, j, checks, touched, fs0, races,
                    run >>

\* lines 55-56 and 59-60: the removal and its message
LoopRemove ==
    /\ pc = "remove"
    /\ LET file == files_to_remove[i]
           path == Resolve(cwd, file_path)
           err  == RemoveErr(fs, path)
       IN  /\ calls' = Append(calls, Call(path, err))
           /\ IF err = ""
              THEN /\ fs' = Unlink(fs, path)
                   /\ out' = Append(out, Msg("removed", file, ""))
              ELSE /\ out' = Append(out, Msg("error", file, err))
                   /\ UNCHANGED fs
    /\ i' = i + 1
    /\ pc' = "loop"
    /\ UNCHANGED << cwd, readonly, unreadable, dir_ok, launch, main_file, file_path,
                    test_files, j, checks, touched, fs0, races,
                    run >>

\* lines 63-64: the header of the second phase and glob.glob
Glob ==
    /\ pc = "glob"
    /\ out' = Append(out, Msg("glob_header", <<>>, ""))
    /\ test_files' \in Orderings(GlobNames(fs, cwd, test_pattern))
    /\ j' = 1
    /\ pc' = "glob_loop"
    /\ UNCHANGED << cwd, fs, readonly, unreadable, dir_ok, launch, main_file, i,
                    file_path, checks, calls, touched, fs0, races,
                    run >>

\* variant of GlobRemove: a failure ends the loop (try around the whole loop)
GlobRemove_abort ==
    /\ pc = "glob_loop"
    /\ IF j > Len(test_files)
       THEN /\ out' = out \o << Msg("complete", <<>>, ""),
                                Msg("self_header", <<>>, "") >>
            /\ pc' = "self"
            /\ UNCHANGED << fs, calls, j >>
       ELSE LET file == test_files[j]
                path == Resolve(cwd, file)
                err  == RemoveErr(fs, path)
            IN  /\ calls' = Append(calls, Call(path, err))
                /\ IF err = ""
                   THEN /\ fs' = Unlink(fs, path)
                        /\ out' = Append(out, Msg("removed", file, ""))
                        /\ j' = j + 1
                        /\ pc' = "glob_loop"
                   ELSE /\ out' = out \o << Msg("error", file, err),
                                            Msg("complete", <<>>, ""),
                                            Msg("self_header", <<>>, "") >>
                        /\ pc' = "self"
                        /\ UNCHANGED << fs, j >>
    /\ UNCHANGED << cwd, readonly, unreadable, dir_ok, launch, main_file, i, file_path,
                    test_files, checks, touched, fs0, races, run >>

\* lines 65-70: one iteration of the second loop; lines 72 and 75 once the
\* list is exhausted
GlobRemove ==
    /\ pc = "glob_loop"
    /\ IF j > Len(test_files)
       THEN /\ out' = out \o << Msg("complete", <<>>, ""),
                                Msg("self_header", <<>>, "") >>
            /\ pc' = "self"
            /\ UNCHANGED << fs, calls, j >>
       ELSE LET file == test_files[j]
                path == Resolve(cwd, file)
                err  == RemoveErr(fs, path)
            IN  /\ calls' = Append(calls, Call(path, err))
                /\ IF err = ""
                   THEN /\ fs' = Unlink(fs, path)
                        /\ out' = Append(out, Msg("removed", file, ""))
                   ELSE /\ out' = Append(out, Msg("error", file, err))
                        /\ UNCHANGED fs
                /\ j' = j + 1
                /\ pc' = "glob_loop"
    /\ UNCHANGED << cwd, readonly, unreadable, dir_ok, launch, main_file, i, file_path,
                    test_files, checks, touched, fs0, races, run >>

\* variant of SelfRemove: the failure of the removal is not caught
SelfRemove_uncaught ==
    /\ pc = "self"
    /\ LET path == Resolve(cwd, main_file)
           err  == RemoveErr(fs, path)
       IN  /\ calls' = Append(calls, Call(path, err))
           /\ IF err = ""
              THEN /\ fs' = Unlink(fs, path)
                   /\ pc' = "self_print"
              ELSE /\ pc' = "crashed"
                   /\ UNCHANGED fs
    /\ UNCHANGED << cwd, readonly, unreadable, dir_ok, launch, main_file, i,
                    file_path, test_files, j, out, checks, touched, fs0, races,
                    run >>

\* lines 76-77: os.remove(__file__) inside its try block
SelfRemove ==
    /\ pc = "self"
    /\ LET path == Resolve(cwd, main_file)
           err  == RemoveErr(fs, path)
       IN  /\ calls' = Append(calls, Call(path, err))
           /\ IF err = ""
              THEN fs' = Unlink(fs, path)
              ELSE UNCHANGED fs
    /\ pc' = "self_print"
    /\ UNCHANGED << cwd, readonly, unreadable, dir_ok, launch, main_file, i,
                    file_path, test_files, j, out, checks, touched, fs0, races,
                    run >>

\* line 78, or lines 79-80 when os.remove raised: the last line of output
SelfReport ==
    /\ pc = "self_print"
    /\ LET err == calls[Len(calls)].err
       IN  out' = Append(out, IF err = "" THEN Msg("self_removed", <<>>, "")
                                         ELSE Msg("self_error", <<>>, err))
    /\ pc' = "done"
    /\ UNCHANGED << cwd, fs, readonly, unreadable, dir_ok, launch, main_file, i,
                    file_path, test_files, j, checks, calls, touched, fs0,
                    races, run >>

\* the script, and the link it was launched through, are put back and the
\* script is launched again in the same way
Rerun ==
    /\ pc = "done"
    /\ run < MaxRuns
    /\ run' = run + 1
    /\ fs' = [fs EXCEPT ![script_path] = FileEntry,
                        ![link_path] = IF ViaLink(launch)
                                       THEN LinkEntry(script_path) ELSE @]
    /\ fs0' = fs'
    /\ pc' = "chdir"
    /\ cwd' = launch.cwd
    /\ i' = 1
    /\ file_path' = <<>>
    /\ test_files' = <<>>
    /\ j' = 1
    /\ out' = <<>>
    /\ checks' = <<>>
    /\ calls' = <<>>
    /\ touched' = {}
    /\ UNCHANGED << readonly, unreadable, dir_ok, launch, main_file, races >>

(***************************************************************************)
(* Other processes.  While a run is in progress another process can, at    *)
(* any moment, remove an entry (unlink, rmdir) or create one (a file, a    *)
(* directory, a symbolic link to any path).                                *)
(***************************************************************************)
Running == pc \notin {"done", "crashed"}

ExternalRemove ==
    /\ Running
    /\ races < MaxRaces
    /\ \E p \in Paths :
          /\ Present(fs, p)
          /\ fs' = Unlink(fs, p)
          /\ touched' = touched \cup {p}
    /\ races' = races + 1
    /\ UNCHANGED << pc, cwd, readonly, unreadable, dir_ok, launch, main_file, i,
                    file_path, test_files, j, out, checks, calls, fs0, run >>

ExternalCreate ==
    /\ Running
    /\ races < MaxRaces
    /\ \E p \in Paths, e \in Entries \ {NoEntry} :
          /\ ~Present(fs, p)
          /\ fs' = [fs EXCEPT ![p] = e]
          /\ touched' = touched \cup {p}
    /\ races' = races + 1
    /\ UNCHANGED << pc, cwd, readonly, unreadable, dir_ok, launch, main_file, i,
                    file_path, test_files, j, out, checks, calls, fs0, run >>

Step ==
    \/ Chdir
    \/ PrintStart
    \/ LoopCheck
    \/ LoopRemove
    \/ Glob
    \/ GlobRemove
    \/ SelfRemove
    \/ SelfReport

Next ==
    \/ Step
    \/ Rerun
    \/ ExternalRemove
    \/ ExternalCreate

Spec == Init /\ [][Next]_vars

\* the interpreter keeps executing the script: a run that has not ended
\* takes its next step
FairSpec == Spec /\ WF_vars(Step)

TypeOK ==
    /\ pc \in {"chdir", "start", "loop", "remove", "glob", "glob_loop",
               "self", "self_print", "done", "crashed"}
    /\ fs \in [Paths -> Entries]
    /\ fs0 \in [Paths -> Entries]
    /\ cwd \in {frontend_dir, project_dir}
    /\ readonly \subseteq Dirs
    /\ unreadable \subseteq Dirs
    /\ touched \subseteq Paths
    /\ i \in 1..(Len(files_to_remove) + 1)
    /\ j \in 1..(Len(test_files) + 1)
    /\ checks \in Seq(BOOLEAN)
    /\ races \in 0..MaxRaces
    /\ run \in 1..MaxRuns

(***************************************************************************)
(* Vocabulary of the properties.                                           *)
(***************************************************************************)
Outcomes == {"removed", "skipped", "error"}

NFiles == Len(files_to_remove)

\* the absolute path of the k-th entry of the fixed list
ListedPath(k) == Join(frontend_dir, files_to_remove[k])

\* position in o of the first line with the given text, 0 when there is none
PosIn(o, text) ==
    LET idx == {m \in 1..Len(o) : o[m].text = text}
    IN  IF idx = {} THEN 0 ELSE CHOOSE m \in idx : \A n \in idx : m <= n

\* positions in o of the outcome lines of the fixed-list phase
FixedIdxIn(o) ==
    LET g == PosIn(o, "glob_header")
    IN  { m \in 1..Len(o) : o[m].text \in Outcomes /\ (g = 0 \/ m < g) }

\* positions in o of the outcome lines of the glob phase
GlobIdxIn(o) ==
    LET g == PosIn(o, "glob_header")
    IN  { m \in 1..Len(o) : o[m].text \in Outcomes /\ g # 0 /\ m > g }

FixedIdx == FixedIdxIn(out)
GlobIdx == GlobIdxIn(out)

\* positions, among those of S, of the lines of o about the k-th listed file
LinesOf(o, S, k) == { m \in S : o[m].file = files_to_remove[k] }

\* positions of the fixed-phase outcome lines about the k-th listed file
FixedLines(k) == LinesOf(out, FixedIdx, k)

\* positions of the glob-phase outcome lines about name n
GlobLines(n) == { m \in GlobIdx : out[m].file = n }

\* positions in calls of the os.remove calls on path p
CallsOn(p) == { c \in 1..Len(calls) : calls[c].path = p }

\* the self-removal has been attempted
SelfAttempted == \E m \in 1..Len(out) : out[m].text \in {"self_removed", "self_error"}

\* the fixed-list phase is over
PastLoop == pc \in {"glob", "glob_loop", "self", "self_print", "done"}

\* name n is of the form test-*.html
IsTestHtml(n) ==
    /\ Len(n) >= 10
    /\ SubSeq(n, 1, 5) = <<"t", "e", "s", "t", "-">>
    /\ SubSeq(n, Len(n) - 4, Len(n)) = <<".", "h", "t", "m", "l">>

\* the paths of frontend_dir itself whose name is of the form test-*.html
TopMatchPaths ==
    { q \in Paths : Dirname(q) = frontend_dir /\ IsTestHtml(Basename(q)) }

\* the paths of the fixed list
ListedPaths == { ListedPath(k) : k \in 1..NFiles }

\* the entry at path p in filesystem f
EntryAt(f, p) == IF p \in DOMAIN f THEN f[p] ELSE NoEntry

\* the paths os.stat(p) looks at in filesystem f: p and, as long as a
\* symbolic link is found, the path the link leads to
RECURSIVE Reach(_, _, _)
Reach(f, S, n) ==
    IF n = 0 THEN S
    ELSE Reach(f, S \cup { LinkTarget(f, q) : q \in {r \in S : Kind(f, r) = "link"} },
               n - 1)

Through(f, p) == Reach(f, {p}, Cardinality(Paths))

\* in filesystem f there is a file or a directory at p or at the end of the
\* symbolic links that start at p
LeadsToEntry(f, p) == \E q \in Through(f, p) : Kind(f, q) \in {"file", "dir"}

\* no other process has changed, during the current run, what
\* os.path.exists(p) looks at: the entry at p and the entries its symbolic
\* links led to when the run started
Untouched(p) == Through(fs0, p) \cap touched = {}

\* the last line of output
LastLine == out[Len(out)]


(***************************************************************************)
(* C1.  Continue-on-error in the fixed-list phase: whatever the outcome of *)
(* the paths before it, every path of files_to_remove is processed, and    *)
(* every processed path has exactly one outcome line: a success line if    *)
(* os.path.exists found it and it was removed, a skip line if              *)
(* os.path.exists found nothing, an error line if the removal raised.      *)
(* Unless another process changed the path or an entry its symbolic links  *)
(* lead to, os.path.exists finds a path only if a file or a directory was  *)
(* there, or at the end of its links, when the run started, and it misses  *)
(* such a path only if the script itself has removed an entry the links    *)
(* lead through.  Paths not yet processed have no line.                    *)
(***************************************************************************)
C1_ContinueOnError ==
    /\ PastLoop => i = NFiles + 1
    /\ Len(checks) = (IF pc = "remove" THEN i ELSE i - 1)
    /\ LET fixed == FixedIdx
       IN  \A k \in 1..NFiles :
         IF k < i
         THEN /\ Cardinality(LinesOf(out, fixed, k)) = 1
              /\ \A m \in LinesOf(out, fixed, k) :
                   /\ out[m].text = "removed"
                        <=> /\ checks[k]
                            /\ \E c \in CallsOn(ListedPath(k)) : calls[c].err = ""
                   /\ out[m].text = "skipped" <=> ~checks[k]
                   /\ out[m].text = "error"
                        <=> \E c \in CallsOn(ListedPath(k)) : calls[c].err # ""
              /\ Untouched(ListedPath(k))
                   => /\ checks[k] => LeadsToEntry(fs0, ListedPath(k))
                      /\ ~checks[k]
                           => \/ ~LeadsToEntry(fs0, ListedPath(k))
                              \/ \E q \in Through(fs0, ListedPath(k)) :
                                    \E c \in CallsOn(q) : calls[c].err = ""
         ELSE LinesOf(out, fixed, k) = {}

\* a finished run in which the removal of one path failed, a later path was
\* removed and the last path has its line
C1_Witness ==
    /\ pc = "done"
    /\ \E k \in 1..(NFiles - 1) :
          /\ \E m \in FixedLines(k) : out[m].text = "error"
          /\ \E n \in (k + 1)..NFiles : \E m \in FixedLines(n) : out[m].text = "removed"
    /\ FixedLines(NFiles) # {}

(***************************************************************************)
(* C9.  Race in the fixed-list phase: when a listed file vanishes between  *)
(* the existence check and os.remove, or the removal fails in another way, *)
(* the script calls os.remove on it once only, prints exactly one line for *)
(* it, an error line, and goes on: the loop index has moved past it and,   *)
(* in a finished run, every later path has its outcome line.               *)
(***************************************************************************)
C9_RaceReported ==
    \A k \in 1..NFiles :
        (\E c \in CallsOn(ListedPath(k)) : calls[c].err # "")
        => /\ Cardinality(CallsOn(ListedPath(k))) = 1
           /\ Cardinality(FixedLines(k)) = 1
           /\ \A m \in FixedLines(k) : out[m].text = "error"
           /\ i > k
           /\ pc = "done" => \A n \in (k + 1)..NFiles : FixedLines(n) # {}

\* a listed file was found by the existence check, was removed by another
\* process before os.remove, and the run went on to its end
C9_Witness ==
    /\ pc = "done"
    /\ \E k \in 1..(NFiles - 1) :
          /\ checks[k]
          /\ ListedPath(k) \in touched
          /\ \E c \in CallsOn(ListedPath(k)) : calls[c].err = "ENOENT"

(***************************************************************************)
(* C10.  os.chdir comes before any output and any removal and is outside   *)
(* every try block: when frontend_dir cannot be entered the run ends with  *)
(* the unhandled error, nothing has been printed, no path has been checked *)
(* and the script has removed nothing.                                     *)
(***************************************************************************)
C10_ChdirFatal ==
    /\ ~dir_ok => pc \in {"chdir", "crashed"}
    /\ pc = "crashed" => ~dir_ok
    /\ pc \in {"chdir", "crashed"} =>
         /\ out = <<>>
         /\ checks = <<>>
         /\ calls = <<>>
         /\ \A p \in Paths \ touched : fs[p] = fs0[p]

\* a run that ended at os.chdir although a listed file and a match of the
\* pattern were there to be removed
C10_Witness ==
    /\ pc = "crashed"
    /\ \E k \in 1..NFiles : Exists(fs, ListedPath(k))
    /\ \E p \in TopMatchPaths : Present(fs, p)
    /\ Exists(fs, script_path)


(***************************************************************************)
(* C2.  As stated, for the runs no other process interferes with: after    *)
(* the run, every file of the fixed list that existed before the run does  *)
(* not exist, and a skip line was printed for every one that was absent    *)
(* before the run.                                                         *)
(***************************************************************************)
C2_Original ==
    (pc = "done" /\ races = 0) =>
        \A k \in 1..NFiles :
            /\ Kind(fs0, ListedPath(k)) = "file" => ~Exists(fs, ListedPath(k))
            /\ ~Exists(fs0, ListedPath(k))
                 => \E m \in FixedLines(k) : out[m].text = "skipped"

(***************************************************************************)
(* C2, amended.  After the run, for every path of the fixed list such that *)
(* no other process changed, during the run, the path or an entry its      *)
(* symbolic links led to: if os.path.exists found it before the run (a     *)
(* file or a directory was there or at the end of its links), then either  *)
(* os.path.exists does not find it any more or an error line was printed   *)
(* for it; if os.path.exists did not find it before the run (nothing       *)
(* there, or a link that leads nowhere), a skip line was printed for it    *)
(* and the path is as it was.                                              *)
(***************************************************************************)
C2_RemovedOrReported ==
    pc = "done" =>
        \A k \in 1..NFiles :
            Untouched(ListedPath(k)) =>
                /\ LeadsToEntry(fs0, ListedPath(k))
                     => \/ ~LeadsToEntry(fs, ListedPath(k))
                        \/ \E m \in FixedLines(k) : out[m].text = "error"
                /\ ~LeadsToEntry(fs0, ListedPath(k))
                     => /\ \E m \in FixedLines(k) : out[m].text = "skipped"
                        /\ EntryAt(fs, ListedPath(k)) = EntryAt(fs0, ListedPath(k))

\* a finished run with a symbolic link at a listed path left in place after
\* the failure of its removal, and a listed path skipped
C2_Witness ==
    /\ pc = "done"
    /\ \E k \in 1..NFiles :
          /\ Untouched(ListedPath(k))
          /\ Kind(fs0, ListedPath(k)) = "link"
          /\ Kind(fs, ListedPath(k)) = "link"
          /\ \E m \in FixedLines(k) : out[m].text = "error"
    /\ \E k \in 1..NFiles :
          /\ Kind(fs0, ListedPath(k)) = "absent"
          /\ \E m \in FixedLines(k) : out[m].text = "skipped"

(***************************************************************************)
(* C3.  As stated, for the runs no other process interferes with: after    *)
(* the run, no entry of the working directory has a name of the form       *)
(* test-*.html.                                                            *)
(***************************************************************************)
C3_Original ==
    (pc = "done" /\ races = 0) => \A p \in TopMatchPaths : ~Present(fs, p)

(***************************************************************************)
(* C3, amended.  After the run the working directory is frontend_dir.      *)
(* Every name glob.glob returned has exactly one outcome line in the glob  *)
(* phase: a success line if its removal succeeded, an error line if it     *)
(* raised.  When frontend_dir can be listed, every entry of it with a name *)
(* of the form test-*.html that no other process changed during the run    *)
(* has its outcome line if it was there before the run, an error line if   *)
(* it remains, and no line if it was not there.  When frontend_dir cannot  *)
(* be listed, the glob phase prints no outcome line and leaves every such  *)
(* entry in place.                                                         *)
(***************************************************************************)
C3_MatchesRemovedOrReported ==
    pc = "done" =>
        /\ cwd = frontend_dir
        /\ Cardinality(GlobIdx) = Len(test_files)
        /\ \A n \in 1..Len(test_files) :
              /\ Cardinality(GlobLines(test_files[n])) = 1
              /\ \A m \in GlobLines(test_files[n]) :
                    /\ out[m].text = "removed"
                         <=> \E c \in CallsOn(Join(frontend_dir, test_files[n])) :
                                calls[c].err = ""
                    /\ out[m].text = "error"
                         <=> \E c \in CallsOn(Join(frontend_dir, test_files[n])) :
                                calls[c].err # ""
        /\ IF frontend_dir \in unreadable
           THEN /\ GlobIdx = {}
                /\ \A p \in TopMatchPaths \ touched : fs[p] = fs0[p]
           ELSE \A p \in TopMatchPaths \ touched :
                   /\ Present(fs0, p) => GlobLines(Basename(p)) # {}
                   /\ Present(fs, p)
                        => \E m \in GlobLines(Basename(p)) : out[m].text = "error"
                   /\ ~Present(fs0, p) => GlobLines(Basename(p)) = {}

\* a finished run in which glob.glob returned two names, the removal of the
\* first failed, the second has its line, and a match that was a plain file
\* before the run remains with its error line
C3_Witness ==
    /\ pc = "done"
    /\ Len(test_files) = 2
    /\ \E m \in GlobLines(test_files[1]) : out[m].text = "error"
    /\ GlobLines(test_files[2]) # {}
    /\ \E p \in TopMatchPaths \ touched :
          /\ Kind(fs0, p) = "file"
          /\ Present(fs, p)
          /\ \E m \in GlobLines(Basename(p)) : out[m].text = "error"

(***************************************************************************)
(* C4.  After a run whose self-removal reported success, the script's own  *)
(* file no longer exists (as stated, the claim covers every run that got   *)
(* past os.chdir).                                                         *)
(***************************************************************************)
C4_Original ==
    (pc = "done" /\ LastLine.text = "self_removed") => ~Exists(fs, script_path)

(***************************************************************************)
(* C5.  Frame, for the runs no other process interferes with: every        *)
(* successful os.remove of the script is on a path of the fixed list under *)
(* frontend_dir, on a top-level entry of frontend_dir of the form          *)
(* test-*.html, or on the script file; every other path has the entry it   *)
(* had when the run started.                                               *)
(***************************************************************************)
C5_Original ==
    races = 0 =>
        LET allowed == ListedPaths \cup TopMatchPaths \cup {script_path}
        IN  /\ \A c \in 1..Len(calls) : calls[c].err = "" => calls[c].path \in allowed
            /\ \A p \in Paths \ allowed : fs[p] = fs0[p]

(***************************************************************************)
(* C6.  Ordering: when the self-removal is about to be attempted or has    *)
(* been attempted, every path of the fixed list and every glob match has   *)
(* its outcome line and both loops are over; the outcome lines precede the *)
(* self-removal line, the self-removal is the last os.remove, and every    *)
(* finished run has attempted it.                                          *)
(***************************************************************************)
C6_SelfLast ==
    /\ pc = "done" => SelfAttempted
    /\ SelfAttempted => pc = "done"
    /\ pc \in {"self", "self_print", "done"} =>
         LET fixed == FixedIdx
             globs == GlobIdx
         IN  /\ i = NFiles + 1
             /\ j = Len(test_files) + 1
             /\ Cardinality(fixed) = NFiles
             /\ \A k \in 1..NFiles : LinesOf(out, fixed, k) # {}
             /\ Cardinality(globs) = Len(test_files)
             /\ \A n \in 1..Len(test_files) :
                   \E m \in globs : out[m].file = test_files[n]
             /\ \A m \in fixed : \A n \in globs : m < n
             /\ \A m \in fixed \cup globs : m < PosIn(out, "self_header")
             /\ Len(calls) = Cardinality({ m \in fixed \cup globs : out[m].text # "skipped" })
                             + (IF pc \in {"self_print", "done"} THEN 1 ELSE 0)

\* the self-removal was attempted after a failure in each of the two phases
C6_Witness ==
    /\ SelfAttempted
    /\ \E m \in FixedIdx : out[m].text = "error"
    /\ \E m \in GlobIdx : out[m].text = "error"

(***************************************************************************)
(* C7.  As stated, no other process interfering: a second run prints only  *)
(* skip lines for the paths of the fixed list and removes nothing in the   *)
(* fixed-list and glob phases.                                             *)
(***************************************************************************)
C7_Original ==
    (run >= 2 /\ pc = "done" /\ races = 0) =>
        /\ \A m \in FixedIdx : out[m].text = "skipped"
        /\ \A c \in 1..(Len(calls) - 1) : calls[c].err # ""

(***************************************************************************)
(* C7, amended.  No other process interfering, a second run removes        *)
(* nothing in the fixed-list and glob phases, and for every path of the    *)
(* fixed list it prints a skip line, unless the entry is still there       *)
(* because its removal failed in the previous run, in which case it prints *)
(* an error line again.                                                    *)
(***************************************************************************)
C7_SecondRun ==
    (run >= 2 /\ races = 0) =>
        /\ \A k \in 1..NFiles : \A m \in FixedLines(k) :
              \/ out[m].text = "skipped" /\ ~Exists(fs0, ListedPath(k))
              \/ out[m].text = "error" /\ Exists(fs0, ListedPath(k))
        /\ \A m \in GlobIdx : out[m].text = "error"
        /\ \A c \in 1..Len(calls) :
              calls[c].err = "" => c = Len(calls) /\ pc \in {"self_print", "done"}
        /\ \A p \in ListedPaths \cup TopMatchPaths : Kind(fs, p) = Kind(fs0, p)
        /\ pc = "done" => Cardinality(FixedIdx) = NFiles

\* a finished second run that skips listed paths and reports again the
\* failure on an entry the first run left in place
C7_Witness ==
    /\ run = 2
    /\ pc = "done"
    /\ races = 0
    /\ \E m \in FixedIdx : out[m].text = "skipped"
    /\ \E m \in FixedIdx : out[m].text = "error"

(***************************************************************************)
(* C8.  No removal failure is fatal: every run comes to its end, so that   *)
(* the script is eventually at rest for good, and it ends with an          *)
(* unhandled error only if nothing was printed (at os.chdir): a run that   *)
(* has started the fixed-list phase reaches the end of the script.         *)
(***************************************************************************)
C8_Terminates ==
    /\ <>[](pc \in {"done", "crashed"})
    /\ [](pc = "crashed" => out = <<>>)
    /\ [](pc = "done" => SelfAttempted)

\* a finished run in which a removal failed in each phase and the
\* self-removal failed too
C8_Witness ==
    /\ pc = "done"
    /\ \E m \in FixedIdx : out[m].text = "error"
    /\ \E m \in GlobIdx : out[m].text = "error"
    /\ LastLine.text = "self_error"

====
